---- MODULE Spec2Model ----
(***************************************************************************)
(* Rewind.png: a PNG image carrying audio tracks after its IEND chunk.     *)
(* Files are byte sequences (offset i of a file f is f[i+1]).  The model   *)
(* covers record (the writer), find_iend (the marker scanner), the TOC     *)
(* decoding of inspect, extract, load_cassette_toc and the TUI/GUI         *)
(* load_tracks, and the CRC32 trailer.                                     *)
(***************************************************************************)
EXTENDS Integers, Sequences, FiniteSets, TLC

\* ------------------------------------------------------------------------
\* Bounds and constants
\* ------------------------------------------------------------------------

\* constants.rs: BUFFER_SIZE is 16384; the model reads in buffers of 16 bytes
\* so that files of a few dozen bytes span several reads.
BUFFER_SIZE == 16

\* std::io::BufWriter's default capacity is half of the code's read buffer
\* (8 KiB against 16 KiB); scaled the same way.
WRITER_CAP == 8

\* Longest run of filler bytes in front of the marker in an image handed to
\* record: with BUFFER_SIZE 16 a run of 5 makes the marker straddle two reads.
MaxImagePad == 5

\* Scanner files: filler before the first marker, and between two markers.
MaxScanPad == 16
MaxScanGap == 5

\* Track numbers asked of extract: 0 .. MaxTrackNumber
MaxTrackNumber == 3

\* The output file grows to at most this many bytes before the disk fails.
MaxDiskLen == 64

\* Every decoded integer of at least 2^24 is larger than any file of the
\* model and is represented by this one value.
Huge == 256 * 256 * 256

Min(a, b) == IF a <= b THEN a ELSE b

\* constants.rs:9-13
IEND_CHUNK == <<0, 0, 0, 0, 73, 69, 78, 68, 174, 66, 96, 130>>

IEND_LEN == Len(IEND_CHUNK)

\* Option<u64>::None of find_iend
None == -1

\* The absent file of a path
NoFile == <<-1>>

\* ------------------------------------------------------------------------
\* Integer codecs (to_le_bytes / from_le_bytes)
\* ------------------------------------------------------------------------

\* u32::to_le_bytes
U32ToLe(n) == <<n % 256, (n \div 256) % 256, (n \div 65536) % 256, (n \div Huge) % 256>>

\* u64::to_le_bytes
U64ToLe(n) == U32ToLe(n) \o <<0, 0, 0, 0>>

\* u32::from_le_bytes / u64::from_le_bytes.  A value below 2^24 is itself.
\* A u64 of at least 2^64 - 2^24 (its five high bytes are all ones) is kept
\* as the negative number v - 2^64, so that the integer sum of two values is
\* the wrapped sum of the code; values in between are Huge.
FromLe(b) ==
    LET low == b[1] + 256 * b[2] + 65536 * b[3]
    IN  IF \A i \in 4..Len(b) : b[i] = 0 THEN low
        ELSE IF Len(b) = 8 /\ \A i \in 4..8 : b[i] = 255 THEN low - Huge
        ELSE Huge

\* a + b on u64 leaves the 64 bits (attempt to add with overflow)
Overflows(a, b) == (a < 0 /\ b < 0) \/ ((a < 0 \/ b < 0) /\ a + b >= 0)

\* String::from_utf8_lossy on a byte alphabet without UTF-8 lead bytes: an
\* ASCII byte is kept, every other byte is replaced by U+FFFD (EF BF BD).
RECURSIVE from_utf8_lossy(_)
from_utf8_lossy(b) ==
    IF b = <<>> THEN <<>>
    ELSE (IF Head(b) < 128 THEN <<Head(b)>> ELSE <<239, 191, 189>>)
         \o from_utf8_lossy(Tail(b))

\* ------------------------------------------------------------------------
\* CRC32 (crc32fast::Hasher): the reflected IEEE polynomial 0xEDB88320,
\* register preset to all ones, complemented at the end.  The 32-bit
\* register is kept as its two 16-bit halves <<hi, lo>>.
\* ------------------------------------------------------------------------

\* 0xEDB8 and 0x8320
POLY_HI == 237 * 256 + 184
POLY_LO == 131 * 256 + 32

\* Bitwise exclusive or of two naturals
RECURSIVE Xor(_, _)
Xor(a, b) ==
    IF a = 0 THEN b
    ELSE IF b = 0 THEN a
    ELSE ((a + b) % 2) + 2 * Xor(a \div 2, b \div 2)

Ones16 == 256 * 256 - 1

\* Hasher::new()
HasherNew == <<Ones16, Ones16>>

\* One bit of the division: shift right, subtract the polynomial when the
\* bit shifted out is set.
CrcShift(reg) ==
    LET hi == reg[1] \div 2
        lo == (reg[2] \div 2) + (2 ^ 15) * (reg[1] % 2)
    IN  IF reg[2] % 2 = 1
        THEN <<Xor(hi, POLY_HI), Xor(lo, POLY_LO)>>
        ELSE <<hi, lo>>

CrcByte(reg, b) ==
    LET x == <<reg[1], Xor(reg[2], b)>>
    IN  CrcShift(CrcShift(CrcShift(CrcShift(CrcShift(CrcShift(CrcShift(CrcShift(x))))))))

IsRegister(reg) == reg[1] \in 0..Ones16 /\ reg[2] \in 0..Ones16

\* Hasher::update (the register is evaluated byte by byte)
RECURSIVE HasherUpdate(_, _)
HasherUpdate(reg, data) ==
    IF data = <<>> THEN reg
    ELSE LET next == CrcByte(reg, Head(data))
         IN  IF IsRegister(next) THEN HasherUpdate(next, Tail(data)) ELSE HasherNew

\* Hasher::finalize followed by to_le_bytes: the CRC as its 4 trailer bytes
\* (u32::from_le_bytes is a bijection, so two CRCs are equal exactly when
\* their byte quadruples are).
HasherFinalizeLe(reg) ==
    LET hi == Ones16 - reg[1]
        lo == Ones16 - reg[2]
    IN  <<lo % 256, lo \div 256, hi % 256, hi \div 256>>

\* ------------------------------------------------------------------------
\* io.rs: find_iend
\* ------------------------------------------------------------------------

\* buffer[i..i + IEND_CHUNK.len()] == IEND_CHUNK
WindowMatches(buffer, i) ==
    \A j \in 1..IEND_LEN : buffer[i + j] = IEND_CHUNK[j]

\* The for loop over one buffer of n bytes: the first matching i, or None.
ScanBuffer(buffer, n) ==
    IF n >= IEND_LEN
    THEN LET hits == {i \in 0..(n - IEND_LEN) : WindowMatches(buffer, i)}
         IN  IF hits = {} THEN None
             ELSE CHOOSE i \in hits : \A k \in hits : i <= k
    ELSE None

\* One read of at most BUFFER_SIZE bytes at file_pos.
ReadChunk(f, pos) ==
    IF pos >= Len(f) THEN <<>>
    ELSE SubSeq(f, pos + 1, Min(Len(f), pos + BUFFER_SIZE))

RECURSIVE FindIendLoop(_, _)
FindIendLoop(f, file_pos) ==
    LET buffer == ReadChunk(f, file_pos)
        n == Len(buffer)
    IN  IF n = 0 THEN None
        ELSE LET i == ScanBuffer(buffer, n)
             IN  IF i # None THEN file_pos + i + IEND_LEN
                 ELSE FindIendLoop(f, file_pos + n)

find_iend(f) == FindIendLoop(f, 0)

\* The marker read as one continuous byte sequence: the offsets just after
\* each occurrence of the marker in f.
MarkerEnds(f) ==
    {e \in IEND_LEN..Len(f) : SubSeq(f, e - IEND_LEN + 1, e) = IEND_CHUNK}

FirstMarkerEnd(f) ==
    IF MarkerEnds(f) = {} THEN None
    ELSE CHOOSE e \in MarkerEnds(f) : \A k \in MarkerEnds(f) : e <= k

\* ------------------------------------------------------------------------
\* The file system and the commands' state
\* ------------------------------------------------------------------------

\* Paths are the UTF-8 bytes of their names: "i", "a", "bb", "o", "x".
PImg == <<105>>
PA == <<97>>
PB == <<98, 98>>
POut == <<111>>
PExt == <<120>>

Paths == {PImg, PA, PB, POut, PExt}

VARIABLES
    fs,           \* path -> file contents, or NoFile
    pc,           \* where the record command stands
    args,         \* record's arguments
    idx,          \* record: index of the payload being validated or copied
    audio_files,  \* record: the validated payloads, <<name, size>>
    rpos,         \* record: read position in the file being copied
    wbuf,         \* record: bytes held by the BufWriter
    hasher,       \* record: the CRC32 register
    fault,        \* record: the disk has started to fail
    log,          \* record: the messages logged, in order
    res,          \* outcome of the last reader command
    sealed,       \* the cassette as record left it, once it has been damaged
    src_len       \* record: length the source had when transfer first read it

\* tui.rs: the fields of App the player's methods touch, and what runs
\* beside them.
VARIABLES
    tracks,               \* App.tracks: the duration_secs of each track
    selected_track,       \* App.selected_track (0-based)
    player_state,         \* App.player_state
    current_track,        \* App.current_track, None or a 0-based index
    progress_secs,        \* App.progress_secs (AtomicU64)
    stream,               \* App.stream: "None" or "Some"
    sink,                 \* App.sink: "None" or "Some"
    is_playing,           \* App.is_playing (AtomicBool)
    is_paused,            \* App.is_paused (AtomicBool)
    playback_generation,  \* App.playback_generation (AtomicU64)
    playlist_scroll,      \* App.playlist_scroll
    sink_empty,           \* rodio: the sink has played all it was given
    threads,              \* the progress threads alive, each with its locals
    upc,                  \* where the UI thread stands inside play_track
    call                  \* the method the UI thread entered last; seq flips at every entry

tuiVars == <<tracks, selected_track, player_state, current_track, progress_secs,
             stream, sink, is_playing, is_paused, playback_generation,
             playlist_scroll, sink_empty, threads, upc, call>>

cassetteVars == <<fs, pc, args, idx, audio_files, rpos, wbuf, hasher, fault, log, res, sealed, src_len>>

vars == <<cassetteVars, tuiVars>>

recVars == <<pc, args, idx, audio_files, rpos, wbuf, hasher, fault, log, src_len>>

\* ------------------------------------------------------------------------
\* io.rs: validate_audio, transfer; std::io::BufWriter
\* ------------------------------------------------------------------------

\* lofty's probe, the external collaborator: a file is recognised as audio
\* when it starts with the magic byte 'f'.
validate_audio(data) == Len(data) >= 1 /\ data[1] = 102

\* BufWriter::write_all(data) on a writer holding buf in front of the file
\* contents disk; ok is FALSE when the disk fails.
BufWriteAll(buf, disk, data, ok) ==
    LET spare == WRITER_CAP - Len(buf)
    IN  IF Len(data) < spare
        THEN [err |-> FALSE, buf |-> buf \o data, disk |-> disk]
        ELSE LET flush == Len(data) > spare
                 direct == Len(data) >= WRITER_CAP
                 buf1 == IF flush THEN <<>> ELSE buf
                 disk1 == IF flush THEN disk \o buf ELSE disk
             IN  IF (flush /\ buf # <<>> /\ ~ok) THEN [err |-> TRUE, buf |-> buf, disk |-> disk]
                 ELSE IF direct
                      THEN IF ok
                           THEN [err |-> FALSE, buf |-> buf1, disk |-> disk1 \o data]
                           ELSE [err |-> TRUE, buf |-> buf1, disk |-> disk1]
                      ELSE [err |-> FALSE, buf |-> buf1 \o data, disk |-> disk1]

\* Drop of the BufWriter: the held bytes are flushed, an error is ignored.
BufDrop(buf, disk, ok) == IF ok THEN disk \o buf ELSE disk

\* Mutant of TocEntries: the size is written on 4 bytes.
RECURSIVE TocEntriesShortSize(_)
TocEntriesShortSize(files) ==
    IF files = <<>> THEN <<>>
    ELSE U32ToLe(Len(files[1][1])) \o files[1][1] \o U32ToLe(files[1][2])
         \o TocEntriesShortSize(Tail(files))

\* record.rs: the TOC bytes
RECURSIVE TocEntries(_)
TocEntries(files) ==
    IF files = <<>> THEN <<>>
    ELSE U32ToLe(Len(files[1][1])) \o files[1][1] \o U64ToLe(files[1][2])
         \o TocEntries(Tail(files))

BuildToc(files) == U32ToLe(Len(files)) \o TocEntries(files)

\* ------------------------------------------------------------------------
\* record.rs: record(image_path, audio_paths, output_path)
\* ------------------------------------------------------------------------

\* main.rs hands record at least one payload; a path may be given twice.
AudioLists == {<<PA>>, <<PB>>, <<PA, PB>>, <<PB, PA>>, <<PA, PA>>}

NoArgs == [image_path |-> <<>>, audio_paths |-> <<>>, output_path |-> <<>>]

OutDisk == fs[args.output_path]

\* The writer is dropped when record returns or unwinds.
DropWriter == fs' = [fs EXCEPT ![args.output_path] = BufDrop(wbuf, OutDisk, ~fault)]

\* The command is started: the first log line.
RecStart ==
    /\ pc = "ready"
    /\ \E al \in AudioLists :
         args' = [image_path |-> PImg, audio_paths |-> al, output_path |-> POut]
    /\ pc' = "validate"
    /\ idx' = 1
    /\ log' = Append(log, <<"Injecting">>)
    /\ UNCHANGED <<fs, audio_files, rpos, wbuf, hasher, fault, res, sealed, src_len>>
    /\ UNCHANGED tuiVars

\* The command is started with the output path naming one of its inputs.
RecStartAliased ==
    /\ pc = "ready"
    /\ \E al \in AudioLists, out \in {PImg, PA, PB} :
         args' = [image_path |-> PImg, audio_paths |-> al, output_path |-> out]
    /\ pc' = "validate"
    /\ idx' = 1
    /\ log' = Append(log, <<"Injecting">>)
    /\ UNCHANGED <<fs, audio_files, rpos, wbuf, hasher, fault, res, sealed, src_len>>
    /\ UNCHANGED tuiVars

\* Mutant of RecValidate: a payload that fails validation is skipped.
RecValidateSkipsInvalid ==
    /\ pc = "validate"
    /\ IF idx > Len(args.audio_paths)
       THEN /\ pc' = "open_image"
            /\ UNCHANGED <<idx, audio_files, log>>
       ELSE LET path == args.audio_paths[idx]
            IN  IF fs[path] = NoFile \/ fault
                THEN /\ pc' = "returned"
                     /\ log' = Append(log, <<"Error", "open", path>>)
                     /\ UNCHANGED <<idx, audio_files>>
                ELSE IF ~validate_audio(fs[path])
                THEN /\ pc' = "validate"
                     /\ log' = Append(log, <<"Error", "validate", path>>)
                     /\ idx' = idx + 1
                     /\ UNCHANGED audio_files
                ELSE /\ audio_files' = Append(audio_files, <<path, Len(fs[path])>>)
                     /\ log' = Append(log, <<"Validated", path>>)
                     /\ idx' = idx + 1
                     /\ pc' = "validate"
    /\ UNCHANGED <<fs, args, rpos, wbuf, hasher, fault, res, sealed, src_len>>
    /\ UNCHANGED tuiVars

\* 1. One turn of the validation loop.
RecValidate ==
    /\ pc = "validate"
    /\ IF idx > Len(args.audio_paths)
       THEN /\ pc' = "open_image"
            /\ UNCHANGED <<idx, audio_files, log>>
       ELSE LET path == args.audio_paths[idx]
            IN  IF fs[path] = NoFile \/ fault
                THEN /\ pc' = "returned"
                     /\ log' = Append(log, <<"Error", "open", path>>)
                     /\ UNCHANGED <<idx, audio_files>>
                ELSE IF ~validate_audio(fs[path])
                THEN /\ pc' = "returned"
                     /\ log' = Append(log, <<"Error", "validate", path>>)
                     /\ UNCHANGED <<idx, audio_files>>
                ELSE /\ audio_files' = Append(audio_files, <<path, Len(fs[path])>>)
                     /\ log' = Append(log, <<"Validated", path>>)
                     /\ idx' = idx + 1
                     /\ pc' = "validate"
    /\ UNCHANGED <<fs, args, rpos, wbuf, hasher, fault, res, sealed, src_len>>
    /\ UNCHANGED tuiVars

\* 2. The image is opened.
RecOpenImage ==
    /\ pc = "open_image"
    /\ IF fs[args.image_path] = NoFile \/ fault
       THEN /\ pc' = "returned"
            /\ log' = Append(log, <<"Error", "open", args.image_path>>)
       ELSE /\ pc' = "create"
            /\ UNCHANGED log
    /\ UNCHANGED <<fs, args, idx, audio_files, rpos, wbuf, hasher, fault, res, sealed, src_len>>
    /\ UNCHANGED tuiVars

\* 2. The output is created (truncated when it exists).
RecCreate ==
    /\ pc = "create"
    /\ IF fault
       THEN /\ pc' = "returned"
            /\ log' = Append(log, <<"Error", "create", args.output_path>>)
            /\ UNCHANGED <<fs, rpos, wbuf, hasher>>
       ELSE /\ fs' = [fs EXCEPT ![args.output_path] = <<>>]
            /\ wbuf' = <<>>
            /\ hasher' = HasherNew
            /\ rpos' = 0
            /\ pc' = "copy_image"
            /\ UNCHANGED log
    /\ UNCHANGED <<args, idx, audio_files, fault, res, sealed, src_len>>
    /\ UNCHANGED tuiVars

\* Mutant of TransferTurn: a read that does not fill the buffer ends the loop.
TransferTurnStopsAtShortRead(path, what, next, nextIdx) ==
    LET buffer == ReadChunk(fs[path], rpos)
        n == Len(buffer)
        w == BufWriteAll(wbuf, OutDisk, buffer, ~fault)
    IN  IF fault
        THEN /\ pc' = "returned"
             /\ log' = Append(log, <<"Error", "copy", what>>)
             /\ DropWriter
             /\ UNCHANGED <<idx, rpos, wbuf, hasher, src_len>>
        ELSE IF n < BUFFER_SIZE
        THEN /\ pc' = next
             /\ idx' = nextIdx
             /\ rpos' = 0
             /\ src_len' = None
             /\ log' = Append(log, <<"Copied", what>>)
             /\ UNCHANGED <<fs, wbuf, hasher>>
        ELSE /\ Len(OutDisk) + Len(wbuf) + n <= MaxDiskLen
             /\ fs' = [fs EXCEPT ![args.output_path] = w.disk]
             /\ wbuf' = w.buf
             /\ hasher' = HasherUpdate(hasher, buffer)
             /\ rpos' = rpos + n
             /\ src_len' = IF src_len = None THEN Len(fs[path]) ELSE src_len
             /\ UNCHANGED <<pc, idx, log>>

\* Mutant of TransferTurn: the error of a read is logged but record goes on
\* with the next step.
TransferTurnGoesOn(path, what, next, nextIdx) ==
    LET buffer == ReadChunk(fs[path], rpos)
        n == Len(buffer)
        w == BufWriteAll(wbuf, OutDisk, buffer, ~fault)
    IN  IF fault
        THEN /\ pc' = next
             /\ idx' = nextIdx
             /\ rpos' = 0
             /\ log' = Append(log, <<"Error", "copy", what>>)
             /\ UNCHANGED <<fs, wbuf, hasher, src_len>>
        ELSE IF n = 0
        THEN /\ pc' = next
             /\ idx' = nextIdx
             /\ rpos' = 0
             /\ src_len' = None
             /\ log' = Append(log, <<"Copied", what>>)
             /\ UNCHANGED <<fs, wbuf, hasher>>
        ELSE /\ Len(OutDisk) + Len(wbuf) + n <= MaxDiskLen
             /\ fs' = [fs EXCEPT ![args.output_path] = w.disk]
             /\ wbuf' = w.buf
             /\ hasher' = HasherUpdate(hasher, buffer)
             /\ rpos' = rpos + n
             /\ src_len' = IF src_len = None THEN Len(fs[path]) ELSE src_len
             /\ UNCHANGED <<pc, idx, log>>

\* One turn of transfer's loop, reading the file at path from rpos (the
\* `total` of the code).  `next` is where record goes when the source is
\* exhausted, `what` the region.  The output grows while the disk has room
\* for it; then the disk fails (IoFault).
TransferTurn(path, what, next, nextIdx) ==
    LET buffer == ReadChunk(fs[path], rpos)
        n == Len(buffer)
        w == BufWriteAll(wbuf, OutDisk, buffer, ~fault)
    IN  IF fault
        THEN \* reader.read fails
             /\ pc' = "returned"
             /\ log' = Append(log, <<"Error", "copy", what>>)
             /\ DropWriter
             /\ UNCHANGED <<idx, rpos, wbuf, hasher, src_len>>
        ELSE IF n = 0
        THEN /\ pc' = next
             /\ idx' = nextIdx
             /\ rpos' = 0
             /\ src_len' = None
             /\ log' = Append(log, <<"Copied", what>>)
             /\ UNCHANGED <<fs, wbuf, hasher>>
        ELSE /\ Len(OutDisk) + Len(wbuf) + n <= MaxDiskLen
             /\ fs' = [fs EXCEPT ![args.output_path] = w.disk]
             /\ wbuf' = w.buf
             /\ hasher' = HasherUpdate(hasher, buffer)
             /\ rpos' = rpos + n
             /\ src_len' = IF src_len = None THEN Len(fs[path]) ELSE src_len
             /\ UNCHANGED <<pc, idx, log>>

\* 3. The image is copied.
RecCopyImage ==
    /\ pc = "copy_image"
    /\ TransferTurn(args.image_path, args.image_path, "write_toc", 1)
    /\ UNCHANGED <<args, audio_files, fault, res, sealed>>
    /\ UNCHANGED tuiVars

\* Mutant of RecWriteToc: the TOC is written but not hashed.
RecWriteTocUnhashed ==
    /\ pc = "write_toc"
    /\ LET toc == BuildToc(audio_files)
           w == BufWriteAll(wbuf, OutDisk, toc, ~fault)
       IN  IF w.err
           THEN /\ pc' = "panicked"
                /\ fs' = [fs EXCEPT ![args.output_path] = BufDrop(w.buf, w.disk, ~fault)]
                /\ UNCHANGED <<wbuf, log>>
           ELSE /\ fs' = [fs EXCEPT ![args.output_path] = w.disk]
                /\ wbuf' = w.buf
                /\ log' = Append(log, <<"TOC written">>)
                /\ pc' = "copy_audio"
    /\ UNCHANGED <<args, idx, audio_files, rpos, hasher, fault, res, sealed, src_len>>
    /\ UNCHANGED tuiVars

\* 4. The TOC is built and written (write_all(..).unwrap()).
RecWriteToc ==
    /\ pc = "write_toc"
    /\ LET toc == BuildToc(audio_files)
           w == BufWriteAll(wbuf, OutDisk, toc, ~fault)
       IN  IF w.err
           THEN /\ pc' = "panicked"
                /\ fs' = [fs EXCEPT ![args.output_path] = BufDrop(w.buf, w.disk, ~fault)]
                /\ UNCHANGED <<wbuf, hasher, log>>
           ELSE /\ fs' = [fs EXCEPT ![args.output_path] = w.disk]
                /\ wbuf' = w.buf
                /\ hasher' = HasherUpdate(hasher, toc)
                /\ log' = Append(log, <<"TOC written">>)
                /\ pc' = "copy_audio"
    /\ UNCHANGED <<args, idx, audio_files, rpos, fault, res, sealed, src_len>>
    /\ UNCHANGED tuiVars

\* Mutant of RecCopyAudio: the payloads are appended last first.
RecCopyAudioReversed ==
    /\ pc = "copy_audio"
    /\ IF idx > Len(audio_files)
       THEN /\ pc' = "write_crc"
            /\ UNCHANGED <<fs, idx, rpos, wbuf, hasher, log, src_len>>
       ELSE LET k == Len(audio_files) + 1 - idx
            IN  TransferTurn(audio_files[k][1], audio_files[k][1], "copy_audio", idx + 1)
    /\ UNCHANGED <<args, audio_files, fault, res, sealed>>
    /\ UNCHANGED tuiVars

\* 5. One turn of the payload loop: one turn of transfer on payload idx.
RecCopyAudio ==
    /\ pc = "copy_audio"
    /\ IF idx > Len(audio_files)
       THEN /\ pc' = "write_crc"
            /\ UNCHANGED <<fs, idx, rpos, wbuf, hasher, log, src_len>>
       ELSE TransferTurn(audio_files[idx][1], audio_files[idx][1], "copy_audio", idx + 1)
    /\ UNCHANGED <<args, audio_files, fault, res, sealed>>
    /\ UNCHANGED tuiVars

\* 6. The CRC is written (write_all(..).unwrap()), success is logged, and
\* record returns, dropping the writer.
RecWriteCrc ==
    /\ pc = "write_crc"
    /\ LET crc == HasherFinalizeLe(hasher)
           w == BufWriteAll(wbuf, OutDisk, crc, ~fault)
       IN  /\ fs' = [fs EXCEPT ![args.output_path] = BufDrop(w.buf, w.disk, ~fault)]
           /\ IF w.err
              THEN /\ pc' = "panicked"
                   /\ UNCHANGED log
              ELSE /\ pc' = "returned"
                   /\ log' = Append(log, <<"Success", "Injection complete", crc>>)
    /\ UNCHANGED <<args, idx, audio_files, rpos, wbuf, hasher, fault, res, sealed, src_len>>
    /\ UNCHANGED tuiVars

\* The environment: from some point of the command on, file I/O fails.
IoFault ==
    /\ pc \notin {"ready", "returned", "panicked"}
    /\ ~fault
    /\ fault' = TRUE
    /\ UNCHANGED <<fs, pc, args, idx, audio_files, rpos, wbuf, hasher, log, res, sealed, src_len>>
    /\ UNCHANGED tuiVars

Record ==
    \/ RecStart
    \/ RecValidate
    \/ RecOpenImage
    \/ RecCreate
    \/ RecCopyImage
    \/ RecWriteToc
    \/ RecCopyAudio
    \/ RecWriteCrc

\* ------------------------------------------------------------------------
\* The readers' shared steps
\* ------------------------------------------------------------------------

\* Seek to pos, then read_exact of n bytes: it fails when fewer remain (and
\* no file holds the 2^64 - 2^24 bytes or more of a negative n).
CanRead(f, pos, n) == pos >= 0 /\ n >= 0 /\ pos + n <= Len(f)

Bytes(f, pos, n) == SubSeq(f, pos + 1, pos + n)

\* Mutant of ParseEntries: a short read ends the loop with the entries read so far.
RECURSIVE ParseEntriesLenient(_, _, _, _)
ParseEntriesLenient(f, pos, k, acc) ==
    IF k = 0 THEN [ok |-> TRUE, entries |-> acc, pos |-> pos]
    ELSE IF ~CanRead(f, pos, 4) THEN [ok |-> TRUE, entries |-> acc, pos |-> pos]
    ELSE LET name_len == FromLe(Bytes(f, pos, 4))
         IN  IF ~CanRead(f, pos + 4, name_len) \/ ~CanRead(f, pos + 4 + name_len, 8)
             THEN [ok |-> TRUE, entries |-> acc, pos |-> pos]
             ELSE LET name == from_utf8_lossy(Bytes(f, pos + 4, name_len))
                      size == FromLe(Bytes(f, pos + 4 + name_len, 8))
                  IN  ParseEntriesLenient(f, pos + 4 + name_len + 8, k - 1,
                                          Append(acc, <<name, size>>))

\* The entry loop of the readers, k entries still to read at pos: the entries
\* read so far, the position reached, and whether a read_exact failed.
RECURSIVE ParseEntries(_, _, _, _)
ParseEntries(f, pos, k, acc) ==
    IF k = 0 THEN [ok |-> TRUE, entries |-> acc, pos |-> pos]
    ELSE IF ~CanRead(f, pos, 4) THEN [ok |-> FALSE, entries |-> acc, pos |-> pos]
    ELSE LET name_len == FromLe(Bytes(f, pos, 4))
         IN  IF ~CanRead(f, pos + 4, name_len)
             THEN [ok |-> FALSE, entries |-> acc, pos |-> pos]
             ELSE IF ~CanRead(f, pos + 4 + name_len, 8)
             THEN [ok |-> FALSE, entries |-> acc, pos |-> pos]
             ELSE LET name == from_utf8_lossy(Bytes(f, pos + 4, name_len))
                      size == FromLe(Bytes(f, pos + 4 + name_len, 8))
                  IN  ParseEntries(f, pos + 4 + name_len + 8, k - 1,
                                   Append(acc, <<name, size>>))

\* offsets[i] = audio_start + the sizes of the entries before i
RECURSIVE Offsets(_, _)
Offsets(entries, offset) ==
    IF entries = <<>> THEN <<>>
    ELSE <<offset>> \o Offsets(Tail(entries), offset + entries[1][2])

\* One of the `offset += size` of that loop overflows.
RECURSIVE OffsetsOverflow(_, _)
OffsetsOverflow(entries, offset) ==
    IF entries = <<>> THEN FALSE
    ELSE \/ Overflows(offset, entries[1][2])
         \/ OffsetsOverflow(Tail(entries), offset + entries[1][2])

\* The per-track loop of inspect and load_tracks: every track's bytes are
\* read at its offset; TRUE when no read_exact fails.
RECURSIVE CanReadTracks(_, _, _)
CanReadTracks(f, entries, offset) ==
    IF entries = <<>> THEN TRUE
    ELSE /\ CanRead(f, offset, entries[1][2])
         /\ CanReadTracks(f, Tail(entries), offset + entries[1][2])

\* Mutant of hash_only: every read asks for a whole buffer.
RECURSIVE hash_onlyWholeBuffers(_, _, _, _)
hash_onlyWholeBuffers(f, reg, total, limit) ==
    IF total < limit
    THEN LET to_read == BUFFER_SIZE
             n == Min(to_read, Len(f) - total)
             next == HasherUpdate(reg, Bytes(f, total, n))
         IN  IF n = 0 \/ ~IsRegister(next) THEN [hasher |-> reg, total |-> total]
             ELSE hash_onlyWholeBuffers(f, next, total + n, limit)
    ELSE [hasher |-> reg, total |-> total]

\* io.rs: hash_only(reader, hasher, limit) from the start of f: the register
\* and the number of bytes consumed (the reader is left at `total`).
RECURSIVE hash_only(_, _, _, _)
hash_only(f, reg, total, limit) ==
    IF total < limit
    THEN LET to_read == Min(BUFFER_SIZE, limit - total)
             n == Min(to_read, Len(f) - total)
             next == HasherUpdate(reg, Bytes(f, total, n))
         IN  IF n = 0 \/ ~IsRegister(next) THEN [hasher |-> reg, total |-> total]
             ELSE hash_only(f, next, total + n, limit)
    ELSE [hasher |-> reg, total |-> total]

\* What a reader command leaves behind.
Result(op, outcome) ==
    [op |-> op, outcome |-> outcome, track_number |-> 0, count |-> 0,
     toc_pos |-> None, toc_read |-> FALSE, entries |-> <<>>, offsets |-> <<>>, data |-> <<>>,
     hashed |-> None, crc |-> <<>>, stored_crc |-> <<>>, overflow |-> FALSE]

\* An addition that overflows panics in a build with overflow checks and
\* wraps in a build without: both outcomes of a result.
Builds(r) ==
    IF r.overflow
    THEN {r, [r EXCEPT !.outcome = "panic", !.entries = <<>>, !.offsets = <<>>, !.data = <<>>]}
    ELSE {r}

NoResult == Result("none", "none")

\* ------------------------------------------------------------------------
\* playback.rs: load_cassette_toc and the read of play_track
\* ------------------------------------------------------------------------

load_cassette_toc(f) ==
    LET r0 == Result("load_cassette_toc", "ok")
        toc_pos == find_iend(f)
        r == [r0 EXCEPT !.toc_pos = toc_pos]
    IN  IF f = NoFile THEN [r0 EXCEPT !.outcome = "error_open"]
        ELSE IF toc_pos = None THEN [r EXCEPT !.outcome = "error_no_iend"]
        ELSE IF ~CanRead(f, toc_pos, 4)
        THEN [r EXCEPT !.outcome = "panic", !.toc_read = TRUE]
        ELSE LET track_count == FromLe(Bytes(f, toc_pos, 4))
                 p == ParseEntries(f, toc_pos + 4, track_count, <<>>)
                 rc == [r EXCEPT !.toc_read = TRUE, !.count = track_count]
             IN  IF track_count = 0 THEN [rc EXCEPT !.outcome = "error_blank"]
                 ELSE IF ~p.ok THEN [rc EXCEPT !.outcome = "panic"]
                 ELSE [rc EXCEPT !.entries = p.entries,
                                 !.offsets = Offsets(p.entries, p.pos),
                                 !.overflow = OffsetsOverflow(p.entries, p.pos)]

\* play_track's seek and read_exact of track track_idx (0-based)
play_track_read(f, entries, offsets, track_idx) ==
    LET size == entries[track_idx + 1][2]
        track_offset == offsets[track_idx + 1]
    IN  IF CanRead(f, track_offset, size)
        THEN [ok |-> TRUE, data |-> Bytes(f, track_offset, size)]
        ELSE [ok |-> FALSE, data |-> <<>>]

\* ------------------------------------------------------------------------
\* extract.rs: extract(cassette_path, track_number, output_path); the
\* result, and in data the bytes to be written to output_path
\* ------------------------------------------------------------------------

\* Mutant of IndexOutOfRange: the last track is refused too.
IndexOutOfRangeOffByOne(track_number, track_count) ==
    track_number = 0 \/ track_number >= track_count

\* track_number == 0 || track_number > track_count
IndexOutOfRange(track_number, track_count) ==
    track_number = 0 \/ track_number > track_count

RECURSIVE SumSizes(_, _)
SumSizes(entries, n) ==
    IF n = 0 THEN 0 ELSE entries[n][2] + SumSizes(entries, n - 1)

\* One of the `track_offset += entries[i].1` for the n tracks in front overflows.
SumOverflow(entries, audio_start, n) ==
    \E i \in 1..n : Overflows(audio_start + SumSizes(entries, i - 1), entries[i][2])

extract(f, track_number) ==
    LET r0 == [Result("extract", "ok") EXCEPT !.track_number = track_number]
        toc_pos == find_iend(f)
        r == [r0 EXCEPT !.toc_pos = toc_pos]
    IN  IF f = NoFile THEN [r0 EXCEPT !.outcome = "error_open"]
        ELSE IF toc_pos = None THEN [r EXCEPT !.outcome = "error_no_iend"]
        ELSE IF ~CanRead(f, toc_pos, 4)
        THEN [r EXCEPT !.outcome = "panic", !.toc_read = TRUE]
        ELSE LET track_count == FromLe(Bytes(f, toc_pos, 4))
                 rc == [r EXCEPT !.toc_read = TRUE, !.count = track_count]
             IN  IF track_count = 0 THEN [rc EXCEPT !.outcome = "error_blank"]
                 ELSE IF IndexOutOfRange(track_number, track_count)
                 THEN [rc EXCEPT !.outcome = "error_index"]
                 ELSE LET p == ParseEntries(f, toc_pos + 4, track_count, <<>>)
                      IN  IF ~p.ok THEN [rc EXCEPT !.outcome = "panic"]
                          ELSE LET track_offset == p.pos + SumSizes(p.entries, track_number - 1)
                                   size == p.entries[track_number][2]
                                   ro == [rc EXCEPT !.overflow =
                                            SumOverflow(p.entries, p.pos, track_number - 1)]
                               IN  IF ~CanRead(f, track_offset, size)
                                   THEN [ro EXCEPT !.outcome = "panic", !.entries = p.entries]
                                   ELSE [ro EXCEPT !.entries = p.entries,
                                                   !.offsets = <<track_offset>>,
                                                   !.data = Bytes(f, track_offset, size)]

\* ------------------------------------------------------------------------
\* inspect.rs: inspect(path)
\* ------------------------------------------------------------------------

\* Mutant of FileTooSmall: a file of exactly 4 bytes is refused too.
FileTooSmallInclusive(file_len) == file_len <= 4

\* file_len < 4
FileTooSmall(file_len) == file_len < 4

\* 1. Verify CRC: hash_only over the first file_len - 4 bytes, then
\* read_exact of the 4 bytes that follow.
VerifyCrc(f) ==
    LET data_len == Len(f) - 4
        h == hash_only(f, HasherNew, 0, data_len)
    IN  [hashed |-> h.total,
         crc |-> HasherFinalizeLe(h.hasher),
         read_ok |-> CanRead(f, h.total, 4),
         stored_crc |-> IF CanRead(f, h.total, 4) THEN Bytes(f, h.total, 4) ELSE <<>>]

\* Mutant of CrcMismatch: the test is inverted.
CrcMismatchInverted(v) == v.crc = v.stored_crc

\* hasher.finalize() != stored_crc
CrcMismatch(v) == v.crc # v.stored_crc

\* Mutant of inspect: the marker is searched before the checksum is verified.
inspectScansFirst(f) ==
    LET r0 == Result("inspect", "ok")
    IN  IF f = NoFile THEN [r0 EXCEPT !.outcome = "error_open"]
        ELSE IF FileTooSmall(Len(f)) THEN [r0 EXCEPT !.outcome = "error_too_small"]
        ELSE LET toc_pos == find_iend(f)
                 v == VerifyCrc(f)
                 r == [r0 EXCEPT !.hashed = v.hashed, !.crc = v.crc,
                                 !.stored_crc = v.stored_crc]
             IN  IF toc_pos = None THEN [r EXCEPT !.outcome = "error_no_iend"]
                 ELSE IF ~v.read_ok THEN [r EXCEPT !.outcome = "panic"]
                 ELSE IF CrcMismatch(v)
                 THEN [r EXCEPT !.outcome = "error_crc"]
                 ELSE IF ~CanRead(f, toc_pos, 4)
                 THEN [r EXCEPT !.outcome = "panic", !.toc_pos = toc_pos, !.toc_read = TRUE]
                 ELSE LET track_count == FromLe(Bytes(f, toc_pos, 4))
                          p == ParseEntries(f, toc_pos + 4, track_count, <<>>)
                          rc == [r EXCEPT !.toc_pos = toc_pos, !.toc_read = TRUE,
                                          !.count = track_count]
                      IN  IF ~p.ok THEN [rc EXCEPT !.outcome = "panic"]
                          ELSE IF ~CanReadTracks(f, p.entries, p.pos)
                          THEN [rc EXCEPT !.outcome = "panic", !.entries = p.entries]
                          ELSE [rc EXCEPT !.entries = p.entries,
                                          !.offsets = Offsets(p.entries, p.pos)]

inspect(f) ==
    LET r0 == Result("inspect", "ok")
    IN  IF f = NoFile THEN [r0 EXCEPT !.outcome = "error_open"]
        ELSE IF FileTooSmall(Len(f)) THEN [r0 EXCEPT !.outcome = "error_too_small"]
        ELSE LET toc_pos == find_iend(f)
                 v == VerifyCrc(f)
                 r == [r0 EXCEPT !.hashed = v.hashed, !.crc = v.crc,
                                 !.stored_crc = v.stored_crc]
             IN  IF ~v.read_ok THEN [r EXCEPT !.outcome = "panic"]
                 ELSE IF CrcMismatch(v)
                 THEN [r EXCEPT !.outcome = "error_crc"]
                 ELSE IF toc_pos = None THEN [r EXCEPT !.outcome = "error_no_iend"]
                 ELSE IF ~CanRead(f, toc_pos, 4)
                 THEN [r EXCEPT !.outcome = "panic", !.toc_pos = toc_pos, !.toc_read = TRUE]
                 ELSE LET track_count == FromLe(Bytes(f, toc_pos, 4))
                          p == ParseEntries(f, toc_pos + 4, track_count, <<>>)
                          rc == [r EXCEPT !.toc_pos = toc_pos, !.toc_read = TRUE,
                                          !.count = track_count]
                      IN  IF ~p.ok THEN [rc EXCEPT !.outcome = "panic"]
                          ELSE IF ~CanReadTracks(f, p.entries, p.pos)
                          THEN [rc EXCEPT !.outcome = "panic", !.entries = p.entries]
                          ELSE [rc EXCEPT !.entries = p.entries,
                                          !.offsets = Offsets(p.entries, p.pos)]

\* ------------------------------------------------------------------------
\* tui.rs and gui.rs: load_tracks(path) (the two are the same code, the
\* message of the missing marker apart)
\* ------------------------------------------------------------------------

load_tracks(op, f) ==
    LET r0 == Result(op, "ok")
        toc_pos == find_iend(f)
        r == [r0 EXCEPT !.toc_pos = toc_pos]
    IN  IF f = NoFile THEN [r0 EXCEPT !.outcome = "error_open"]
        ELSE IF toc_pos = None THEN [r EXCEPT !.outcome = "error_no_iend"]
        ELSE IF ~CanRead(f, toc_pos, 4)
        THEN [r EXCEPT !.outcome = "error_read", !.toc_read = TRUE]
        ELSE LET track_count == FromLe(Bytes(f, toc_pos, 4))
                 p == ParseEntries(f, toc_pos + 4, track_count, <<>>)
                 rc == [r EXCEPT !.toc_read = TRUE, !.count = track_count]
             IN  IF ~p.ok THEN [rc EXCEPT !.outcome = "error_read"]
                 ELSE IF ~CanReadTracks(f, p.entries, p.pos)
                 THEN [rc EXCEPT !.outcome = "error_read"]
                 ELSE [rc EXCEPT !.entries = p.entries,
                                 !.offsets = Offsets(p.entries, p.pos)]

\* ------------------------------------------------------------------------
\* The reader commands, run on the cassette at POut after record
\* ------------------------------------------------------------------------

CanRunReader == pc \in {"returned", "panicked"}

readerFrame == <<args, idx, audio_files, rpos, wbuf, hasher, fault, log, sealed, src_len>>

CmdInspect ==
    /\ CanRunReader
    /\ res' = inspect(fs[POut])
    /\ pc' = "done"
    /\ UNCHANGED <<fs, readerFrame>>
    /\ UNCHANGED tuiVars

\* extract writes the track to PExt; create_file may fail.
CmdExtract ==
    /\ CanRunReader
    /\ \E track_number \in 0..MaxTrackNumber, create_ok \in BOOLEAN :
         \E r \in Builds(extract(fs[POut], track_number)) :
             IF r.outcome = "ok" /\ create_ok
             THEN /\ fs' = [fs EXCEPT ![PExt] = r.data]
                  /\ res' = r
             ELSE /\ res' = IF r.outcome = "ok"
                            THEN [r EXCEPT !.outcome = "error_create", !.data = <<>>]
                            ELSE r
                  /\ UNCHANGED fs
    /\ pc' = "done"
    /\ UNCHANGED readerFrame
    /\ UNCHANGED tuiVars

\* play_random: the TOC is loaded, one track is picked and read.
CmdPlayRandom ==
    /\ CanRunReader
    /\ \E r \in Builds(load_cassette_toc(fs[POut])) :
           IF r.outcome # "ok" THEN res' = r
           ELSE \E track_idx \in 0..(Len(r.entries) - 1) :
                  LET d == play_track_read(fs[POut], r.entries, r.offsets, track_idx)
                  IN  res' = IF d.ok
                             THEN [r EXCEPT !.track_number = track_idx + 1, !.data = d.data]
                             ELSE [r EXCEPT !.track_number = track_idx + 1, !.outcome = "panic"]
    /\ pc' = "done"
    /\ UNCHANGED <<fs, readerFrame>>
    /\ UNCHANGED tuiVars

CmdTui ==
    /\ CanRunReader
    /\ res' = load_tracks("tui", fs[POut])
    /\ pc' = "done"
    /\ UNCHANGED <<fs, readerFrame>>
    /\ UNCHANGED tuiVars

CmdGui ==
    /\ CanRunReader
    /\ res' = load_tracks("gui", fs[POut])
    /\ pc' = "done"
    /\ UNCHANGED <<fs, readerFrame>>
    /\ UNCHANGED tuiVars

Readers ==
    \/ CmdInspect
    \/ CmdExtract
    \/ CmdPlayRandom
    \/ CmdTui
    \/ CmdGui

\* ------------------------------------------------------------------------
\* Damage done to a cassette between record and a reader
\* ------------------------------------------------------------------------

TamperMasks == {1, 16, 128, 255}

\* Record ran to its end with no I/O failure.
RecordSucceeded ==
    /\ pc \in {"returned", "done"}
    /\ ~fault
    /\ log # <<>>
    /\ log[Len(log)][1] = "Success"

\* One byte of the cassette takes another value.
Tamper ==
    /\ pc = "returned"
    /\ RecordSucceeded
    /\ sealed = NoFile
    /\ \E pos \in 1..Len(fs[POut]), m \in TamperMasks :
         fs' = [fs EXCEPT ![POut][pos] = Xor(@, m)]
    /\ sealed' = fs[POut]
    /\ UNCHANGED <<recVars, res>>
    /\ UNCHANGED tuiVars

\* The cassette loses its tail.
Truncate ==
    /\ pc = "returned"
    /\ RecordSucceeded
    /\ sealed = NoFile
    /\ \E n \in 0..(Len(fs[POut]) - 1) :
         fs' = [fs EXCEPT ![POut] = SubSeq(@, 1, n)]
    /\ sealed' = fs[POut]
    /\ UNCHANGED <<recVars, res>>
    /\ UNCHANGED tuiVars

\* ------------------------------------------------------------------------
\* tui.rs: the player
\* ------------------------------------------------------------------------

MAX_PLAYLIST_VISIBLE == 5

MaxTracks == 7

MaxDuration == 2

MaxGeneration == 2

NoCall == [op |-> "none", seq |-> 0, outcome |-> "none"]

Visible == Min(Len(tracks), MAX_PLAYLIST_VISIBLE)

\* Mutant of update_scroll: the window is moved one row short.
update_scrollOffByOne(sel, scroll) ==
    IF sel < scroll THEN sel
    ELSE IF sel >= scroll + Visible THEN sel - Visible
    ELSE scroll

\* update_scroll: the scroll position that keeps the selection sel visible.
update_scroll(sel, scroll) ==
    IF sel < scroll THEN sel
    ELSE IF sel >= scroll + Visible THEN sel - Visible + 1
    ELSE scroll

\* select_track: the selection after a click on track track_idx.
select_track(track_idx) == IF track_idx < Len(tracks) THEN track_idx ELSE selected_track

\* get_playlist_click for a click on row i of the playlist.
get_playlist_click(i) ==
    IF i < Visible /\ playlist_scroll + i < Len(tracks) THEN playlist_scroll + i ELSE None

ClickRows == 0..MAX_PLAYLIST_VISIBLE

\* Mutant of stop_internal: the sink and the stream are left in place.
stop_internalKeepsSink ==
    /\ is_playing' = FALSE
    /\ UNCHANGED <<sink, stream, sink_empty>>

\* stop_internal: the flag is cleared, the sink stopped and dropped, the
\* stream dropped.
stop_internal ==
    /\ is_playing' = FALSE
    /\ sink' = "None"
    /\ stream' = "None"
    /\ sink_empty' = FALSE

\* play_track(idx) up to Sink::connect_new; sel is the selection on entry.
\* Loading the track's bytes or opening the audio device may fail, and then
\* the method returns.
play_track(op, track_idx, sel) ==
    IF track_idx >= Len(tracks)
    THEN /\ call' = [op |-> op, seq |-> 1 - call.seq, outcome |-> "out_of_range"]
         /\ selected_track' = sel
         /\ UNCHANGED <<tracks, player_state, current_track, progress_secs, stream, sink,
                        is_playing, is_paused, playback_generation, playlist_scroll,
                        sink_empty, threads, upc>>
    ELSE /\ playback_generation < MaxGeneration
         /\ stop_internal
         /\ current_track' = track_idx
         /\ selected_track' = track_idx
         /\ playlist_scroll' = update_scroll(track_idx, playlist_scroll)
         /\ progress_secs' = 0
         /\ \E outcome \in {"load_failed", "device_failed", "connected"} :
              /\ upc' = IF outcome = "connected" THEN "decode" ELSE "idle"
              /\ call' = [op |-> op, seq |-> 1 - call.seq, outcome |-> outcome]
         /\ UNCHANGED <<tracks, player_state, is_paused, playback_generation, threads>>

\* The progress thread play_track spawns, with its captured values and its
\* local counter, about to evaluate the loop condition.
ProgressThread(new_gen, duration) ==
    [gen |-> new_gen, duration |-> duration, elapsed |-> 0, at |-> "is_playing"]

\* play_track from Decoder::new on: the decoder may fail, and then the method
\* returns, dropping the sink and the stream it has just made; otherwise they
\* are installed, the flags set, the generation incremented and the progress
\* thread spawned.
PlayTrackDecode ==
    /\ upc = "decode"
    /\ upc' = "idle"
    /\ \E decoded \in BOOLEAN :
         IF decoded
         THEN /\ stream' = "Some"
              /\ sink' = "Some"
              /\ sink_empty' = FALSE
              /\ player_state' = "Playing"
              /\ is_playing' = TRUE
              /\ is_paused' = FALSE
              /\ playback_generation' = playback_generation + 1
              /\ threads' = threads \cup
                    {ProgressThread(playback_generation + 1, tracks[current_track + 1])}
              /\ call' = [call EXCEPT !.outcome = "playing"]
         ELSE /\ call' = [call EXCEPT !.outcome = "decode_failed"]
              /\ UNCHANGED <<stream, sink, sink_empty, player_state, is_playing, is_paused,
                             playback_generation, threads>>
    /\ UNCHANGED <<tracks, selected_track, current_track, progress_secs, playlist_scroll>>
    /\ UNCHANGED cassetteVars

uiFrame == <<tracks, player_state, current_track, progress_secs, stream, sink, is_playing,
             is_paused, playback_generation, sink_empty, threads, upc>>

\* Up / 'k'
SelectPrevious ==
    /\ upc = "idle"
    /\ tracks # <<>>
    /\ selected_track' = IF selected_track = 0 THEN Len(tracks) - 1 ELSE selected_track - 1
    /\ playlist_scroll' = update_scroll(selected_track', playlist_scroll)
    /\ call' = [op |-> "select_previous", seq |-> 1 - call.seq, outcome |-> "none"]
    /\ UNCHANGED uiFrame
    /\ UNCHANGED cassetteVars

\* Down / 'j'
SelectNext ==
    /\ upc = "idle"
    /\ tracks # <<>>
    /\ selected_track' = IF selected_track >= Len(tracks) - 1 THEN 0 ELSE selected_track + 1
    /\ playlist_scroll' = update_scroll(selected_track', playlist_scroll)
    /\ call' = [op |-> "select_next", seq |-> 1 - call.seq, outcome |-> "none"]
    /\ UNCHANGED uiFrame
    /\ UNCHANGED cassetteVars

\* A click on a row of the playlist: select_track, then play_track.
PlaylistClick ==
    /\ upc = "idle"
    /\ \E i \in ClickRows :
         LET track_idx == get_playlist_click(i)
         IN  /\ track_idx # None
             /\ play_track("select_track", track_idx, select_track(track_idx))
    /\ UNCHANGED cassetteVars

\* Enter: play_selected.
PlaySelected ==
    /\ upc = "idle"
    /\ play_track("play_selected", selected_track, selected_track)
    /\ UNCHANGED cassetteVars

\* Space: toggle_pause.
TogglePause ==
    /\ upc = "idle"
    /\ IF player_state = "Stopped"
       THEN play_track("toggle_pause", selected_track, selected_track)
       ELSE /\ call' = [op |-> "toggle_pause", seq |-> 1 - call.seq, outcome |-> "none"]
            /\ IF sink = "Some"
               THEN /\ is_paused' = (player_state = "Playing")
                    /\ player_state' = IF player_state = "Playing" THEN "Paused" ELSE "Playing"
               ELSE UNCHANGED <<is_paused, player_state>>
            /\ UNCHANGED <<tracks, selected_track, current_track, progress_secs, stream, sink,
                           is_playing, playback_generation, playlist_scroll, sink_empty,
                           threads, upc>>
    /\ UNCHANGED cassetteVars

\* stop, entered from op.
stop(op) ==
    /\ stop_internal
    /\ player_state' = "Stopped"
    /\ current_track' = None
    /\ progress_secs' = 0
    /\ call' = [op |-> op, seq |-> 1 - call.seq, outcome |-> "stopped"]
    /\ UNCHANGED <<tracks, selected_track, is_paused, playback_generation, playlist_scroll,
                   threads, upc>>

\* 's'
Stop ==
    /\ upc = "idle"
    /\ stop("stop")
    /\ UNCHANGED cassetteVars

\* The index next_track plays.
NextIndex ==
    IF current_track # None
    THEN IF current_track >= Len(tracks) - 1 THEN 0 ELSE current_track + 1
    ELSE selected_track

\* The index previous_track plays.
PreviousIndex ==
    IF current_track # None
    THEN IF current_track = 0 THEN Len(tracks) - 1 ELSE current_track - 1
    ELSE selected_track

\* Right / 'n'
NextTrack ==
    /\ upc = "idle"
    /\ play_track("next_track", NextIndex, selected_track)
    /\ UNCHANGED cassetteVars

\* Left / 'p'
PreviousTrack ==
    /\ upc = "idle"
    /\ play_track("previous_track", PreviousIndex, selected_track)
    /\ UNCHANGED cassetteVars

\* The current track has been played to its end.
TrackFinished ==
    /\ sink = "Some"
    /\ sink_empty
    /\ player_state = "Playing"
    /\ current_track # None

\* Mutant of CheckTrackFinished: the advance wraps around after the last track.
CheckTrackFinishedWraps ==
    /\ upc = "idle"
    /\ TrackFinished
    /\ play_track("check_track_finished", NextIndex, selected_track)
    /\ UNCHANGED cassetteVars

\* check_track_finished, called at every turn of run_app's loop; it does
\* nothing unless the current track has finished.
CheckTrackFinished ==
    /\ upc = "idle"
    /\ TrackFinished
    /\ IF current_track < Len(tracks) - 1
       THEN play_track("check_track_finished", NextIndex, selected_track)
       ELSE stop("check_track_finished")
    /\ UNCHANGED cassetteVars

\* rodio: the sink plays its source to the end.
SinkDrains ==
    /\ sink = "Some"
    /\ ~sink_empty
    /\ player_state = "Playing"
    /\ sink_empty' = TRUE
    /\ UNCHANGED <<tracks, selected_track, player_state, current_track, progress_secs, stream,
                   sink, is_playing, is_paused, playback_generation, playlist_scroll, threads,
                   upc, call>>
    /\ UNCHANGED cassetteVars

threadFrame == <<tracks, selected_track, player_state, current_track, stream, sink, is_playing,
                 is_paused, playback_generation, playlist_scroll, sink_empty, upc, call>>

\* The progress thread: while is_playing.load(..)
ProgressLoadIsPlaying ==
    /\ \E t \in threads :
         /\ t.at = "is_playing"
         /\ threads' = IF is_playing
                       THEN (threads \ {t}) \cup {[t EXCEPT !.at = "generation"]}
                       ELSE threads \ {t}
    /\ UNCHANGED <<progress_secs, threadFrame>>
    /\ UNCHANGED cassetteVars

\* The progress thread: the two breaks.
ProgressLoadGeneration ==
    /\ \E t \in threads :
         /\ t.at = "generation"
         /\ threads' = IF playback_generation # t.gen \/ t.elapsed >= t.duration
                       THEN threads \ {t}
                       ELSE (threads \ {t}) \cup {[t EXCEPT !.at = "is_paused"]}
    /\ UNCHANGED <<progress_secs, threadFrame>>
    /\ UNCHANGED cassetteVars

\* The progress thread: is_paused.load(..); elapsed += 1 when not paused,
\* else the sleep and the next turn.
ProgressLoadIsPaused ==
    /\ \E t \in threads :
         /\ t.at = "is_paused"
         /\ threads' = (threads \ {t}) \cup
                {IF is_paused THEN [t EXCEPT !.at = "is_playing"]
                 ELSE [t EXCEPT !.at = "store", !.elapsed = t.elapsed + 1]}
    /\ UNCHANGED <<progress_secs, threadFrame>>
    /\ UNCHANGED cassetteVars

\* The progress thread: progress.store(elapsed), then the sleep.
ProgressStore ==
    /\ \E t \in threads :
         /\ t.at = "store"
         /\ progress_secs' = t.elapsed
         /\ threads' = (threads \ {t}) \cup {[t EXCEPT !.at = "is_playing"]}
    /\ UNCHANGED threadFrame
    /\ UNCHANGED cassetteVars

\* ------------------------------------------------------------------------
\* Initial states and specifications
\* ------------------------------------------------------------------------

RECURSIVE Pad(_)
Pad(n) == IF n = 0 THEN <<>> ELSE <<80>> \o Pad(n - 1)

\* Images: filler then the marker at the end, as in a PNG; an image with no
\* marker; an image with a byte after the marker; the empty file.
Images ==
    {Pad(p) \o IEND_CHUNK : p \in 0..MaxImagePad}
    \cup {Pad(2), IEND_CHUNK \o Pad(1), <<>>}

FileSystem(img, a, b, o) ==
    [p \in Paths |->
        IF p = PImg THEN img
        ELSE IF p = PA THEN a
        ELSE IF p = PB THEN b
        ELSE IF p = POut THEN o
        ELSE NoFile]

\* No player is running.
NoApp ==
    /\ tracks = <<>>
    /\ selected_track = 0
    /\ player_state = "Stopped"
    /\ current_track = None
    /\ progress_secs = 0
    /\ stream = "None"
    /\ sink = "None"
    /\ is_playing = FALSE
    /\ is_paused = FALSE
    /\ playback_generation = 0
    /\ playlist_scroll = 0
    /\ sink_empty = FALSE
    /\ threads = {}
    /\ upc = "idle"
    /\ call = NoCall

InitRec ==
    /\ pc = "ready"
    /\ args = NoArgs
    /\ idx = 0
    /\ audio_files = <<>>
    /\ rpos = 0
    /\ wbuf = <<>>
    /\ hasher = HasherNew
    /\ fault = FALSE
    /\ log = <<>>
    /\ res = NoResult
    /\ sealed = NoFile
    /\ src_len = None
    /\ NoApp

Init ==
    /\ \E img \in Images, a \in {<<102, 1>>, <<7>>}, b \in {<<102>>, NoFile},
          o \in {NoFile, <<9>>} :
         fs = FileSystem(img, a, b, o)
    /\ InitRec

Next == Record \/ IoFault \/ Readers

Spec == Init /\ [][Next]_vars

\* Cassettes written by record from well-formed inputs, then damaged.
InitTamper ==
    /\ \E img \in {IEND_CHUNK, Pad(1) \o IEND_CHUNK} :
         fs = FileSystem(img, <<102, 1>>, <<102>>, NoFile)
    /\ InitRec

NextTamper == Record \/ Tamper \/ Truncate \/ Readers

SpecTamper == InitTamper /\ [][NextTamper]_vars

\* A TOC of two tracks "a" and "b" with the sizes given as their 8 bytes.
TwoTrackToc(size_a, size_b) ==
    <<2, 0, 0, 0>> \o <<1, 0, 0, 0, 97>> \o size_a \o <<1, 0, 0, 0, 98>> \o size_b

\* record with an output path that is also the image's or a payload's.
AliasImages == {IEND_CHUNK, Pad(MaxImagePad) \o IEND_CHUNK, Pad(2)}

AliasPayloads == (PA :> <<102, 1>>) @@ (PB :> <<102>>)

InitAlias ==
    /\ \E img \in AliasImages :
         fs = FileSystem(img, AliasPayloads[PA], AliasPayloads[PB], NoFile)
    /\ InitRec

NextAlias ==
    \/ RecStartAliased
    \/ RecValidate
    \/ RecOpenImage
    \/ RecCreate
    \/ RecCopyImage
    \/ RecWriteToc
    \/ RecCopyAudio
    \/ RecWriteCrc
    \/ IoFault

SpecAlias == InitAlias /\ [][NextAlias]_vars

\* Arbitrary files handed to the readers: the marker at every place of the
\* read buffers, once, twice, cut short or absent; behind it nothing or a TOC
\* of no track, and behind a single marker also a TOC of two tracks of 2 and
\* 1 bytes with their bytes, or a TOC of two tracks whose first size is
\* 2^64 - 1.
ScanTails == {<<>>, <<0, 0, 0, 0>>}

TocTails ==
    {TwoTrackToc(U64ToLe(2), U64ToLe(1)) \o <<102, 7, 102>>,
     TwoTrackToc(<<255, 255, 255, 255, 255, 255, 255, 255>>, U64ToLe(1)) \o <<102>>}

ScanFiles ==
    {Pad(p) \o IEND_CHUNK \o t : p \in 0..MaxScanPad, t \in ScanTails \cup TocTails}
    \cup {Pad(p) \o IEND_CHUNK \o Pad(g) \o IEND_CHUNK \o t :
            p \in 0..MaxScanPad, g \in 0..MaxScanGap, t \in ScanTails}
    \cup {Pad(p) \o SubSeq(IEND_CHUNK, 1, IEND_LEN - 1) : p \in 0..MaxScanPad}
    \cup {Pad(p) : p \in 0..MaxScanPad}

InitScan ==
    /\ \E f \in ScanFiles : fs = FileSystem(NoFile, NoFile, NoFile, f)
    /\ pc = "returned"
    /\ args = NoArgs
    /\ idx = 0
    /\ audio_files = <<>>
    /\ rpos = 0
    /\ wbuf = <<>>
    /\ hasher = HasherNew
    /\ fault = FALSE
    /\ log = <<>>
    /\ res = NoResult
    /\ sealed = NoFile
    /\ src_len = None
    /\ NoApp

NextScan == Readers

SpecScan == InitScan /\ [][NextScan]_vars

\* The cassettes the player is opened on: every list of one or two tracks
\* with durations up to MaxDuration (0 when the probe found none), and one
\* list longer than the playlist window.
TrackLists ==
    UNION {[1..n -> 0..MaxDuration] : n \in 1..2} \cup {[i \in 1..MaxTracks |-> 1]}

\* App::new on a cassette that has tracks; no cassette command is running.
InitTui ==
    /\ fs = FileSystem(NoFile, NoFile, NoFile, NoFile)
    /\ pc = "done"
    /\ args = NoArgs
    /\ idx = 0
    /\ audio_files = <<>>
    /\ rpos = 0
    /\ wbuf = <<>>
    /\ hasher = HasherNew
    /\ fault = FALSE
    /\ log = <<>>
    /\ res = NoResult
    /\ sealed = NoFile
    /\ src_len = None
    /\ tracks \in TrackLists
    /\ selected_track = 0
    /\ player_state = "Stopped"
    /\ current_track = None
    /\ progress_secs = 0
    /\ stream = "None"
    /\ sink = "None"
    /\ is_playing = FALSE
    /\ is_paused = FALSE
    /\ playback_generation = 0
    /\ playlist_scroll = 0
    /\ sink_empty = FALSE
    /\ threads = {}
    /\ upc = "idle"
    /\ call = NoCall

NextTui ==
    \/ SelectPrevious
    \/ SelectNext
    \/ PlaylistClick
    \/ PlaySelected
    \/ PlayTrackDecode
    \/ TogglePause
    \/ Stop
    \/ NextTrack
    \/ PreviousTrack
    \/ CheckTrackFinished
    \/ SinkDrains
    \/ ProgressLoadIsPlaying
    \/ ProgressLoadGeneration
    \/ ProgressLoadIsPaused
    \/ ProgressStore

SpecTui == InitTui /\ [][NextTui]_vars

\* The UI thread and the sink alone: the progress threads are spawned but
\* their steps, which write progress_secs only, are left out.
NextPlayer ==
    \/ SelectPrevious
    \/ SelectNext
    \/ PlaylistClick
    \/ PlaySelected
    \/ PlayTrackDecode
    \/ TogglePause
    \/ Stop
    \/ NextTrack
    \/ PreviousTrack
    \/ CheckTrackFinished
    \/ SinkDrains

SpecPlayer == InitTui /\ [][NextPlayer]_vars

\* ------------------------------------------------------------------------
\* Properties
\* ------------------------------------------------------------------------

Cassette == fs[POut]

ReaderRan == res.op # "none"

\* The reader command got as far as calling find_iend.
ScannerRan == ReaderRan /\ res.outcome \notin {"error_open", "error_too_small", "error_crc"}

\* The marker of f starts k bytes before a read boundary, 1 <= k <= 11.
MarkerStraddles(f) ==
    LET start == FirstMarkerEnd(f) - IEND_LEN
    IN  \E k \in 1..(IEND_LEN - 1) : start + k > 0 /\ (start + k) % BUFFER_SIZE = 0

\* A PNG: the marker is the end of the image and occurs nowhere before.
WellFormedImage(img) == img # NoFile /\ FirstMarkerEnd(img) = Len(img)

\* The cassette is as a record without I/O failure left it.
FreshCassette == RecordSucceeded /\ sealed = NoFile

\* The entries record was asked to write: names as supplied, sizes of the files.
ExpectedEntries ==
    [i \in 1..Len(args.audio_paths) |->
        <<args.audio_paths[i], Len(fs[args.audio_paths[i]])>>]

\* C1: a marker split across two consecutive reads of find_iend (and occurring
\* nowhere else) is found: the scanner returns the offset just after it.
C1_StraddlingMarkerIsFound ==
    (ScannerRan /\ Cardinality(MarkerEnds(Cassette)) = 1 /\ MarkerStraddles(Cassette))
        => res.toc_pos = FirstMarkerEnd(Cassette)

\* C2: round trip: after a successful record every reader lists exactly the
\* payloads given, with their names and sizes, in order, and reading track i
\* (extract, play_track, or the players' offset and size) gives payload i.
C2_RoundTripIdentity ==
    (FreshCassette /\ WellFormedImage(fs[PImg]) /\ ReaderRan
     /\ (res.op = "extract" => res.track_number \in 1..Len(args.audio_paths)))
        => /\ res.outcome \in {"ok", "error_create"}
           /\ res.entries = ExpectedEntries
           /\ res.op # "extract" =>
                \A i \in 1..Len(res.entries) :
                    /\ i <= Len(res.offsets)
                    /\ CanRead(Cassette, res.offsets[i], res.entries[i][2])
                    /\ Bytes(Cassette, res.offsets[i], res.entries[i][2])
                         = fs[args.audio_paths[i]]
           /\ (res.op = "extract" /\ res.outcome = "ok")
                => fs[PExt] = fs[args.audio_paths[res.track_number]]
           /\ res.op = "load_cassette_toc"
                => res.data = fs[args.audio_paths[res.track_number]]

\* The payload bytes, in the order given.
RECURSIVE Payloads(_)
Payloads(paths) ==
    IF paths = <<>> THEN <<>> ELSE fs[Head(paths)] \o Payloads(Tail(paths))

\* C3: a container produced by a successful record passes verification: its
\* last 4 bytes are the CRC32 of all bytes before them (image, TOC, payloads,
\* in file order), which is what inspect recomputes over file_len - 4 bytes.
C3_TrailerIsCrcOfContents ==
    FreshCassette =>
        LET f == Cassette
            body == fs[PImg] \o BuildToc(ExpectedEntries) \o Payloads(args.audio_paths)
        IN  /\ Len(f) = Len(body) + 4
            /\ SubSeq(f, 1, Len(body)) = body
            /\ Bytes(f, Len(body), 4) = HasherFinalizeLe(HasherUpdate(HasherNew, body))
            /\ res.op = "inspect" => res.outcome # "error_crc"

C3_Witness ==
    /\ FreshCassette
    /\ Len(args.audio_paths) = 2
    /\ Len(fs[PImg]) > BUFFER_SIZE
    /\ res.op = "inspect"
    /\ res.outcome \in {"ok", "error_no_iend"}

\* C4: after a record with valid inputs and no I/O failure, file_length =
\* payload_region_start + sum of the TOC sizes + 4, payload_region_start being
\* the position the reader resolves after find_iend and the TOC decode.
C4_ContainerInvariant ==
    (FreshCassette /\ WellFormedImage(fs[PImg]) /\ res.op = "load_cassette_toc")
        => /\ res.outcome = "ok"
           /\ Len(res.offsets) >= 1
           /\ Len(Cassette)
                = res.offsets[1] + SumSizes(res.entries, Len(res.entries)) + 4

\* The positions at which two files of the same length differ.
DiffPositions(f, g) == {i \in 1..Len(f) : f[i] # g[i]}

\* The cassette is a written container with exactly one byte changed.
OneByteChanged ==
    /\ sealed # NoFile
    /\ Len(Cassette) = Len(sealed)
    /\ Cardinality(DiffPositions(Cassette, sealed)) = 1

\* C5: checksum sensitivity: a written container with any single byte changed
\* (image, TOC, payload or trailer) fails the integrity check of inspect.
C5_ChecksumSensitivity ==
    (OneByteChanged /\ res.op = "inspect") => res.outcome = "error_crc"

\* The byte changed lies in the part before the trailer / in the trailer.
C5_Witness ==
    /\ OneByteChanged
    /\ res.op = "inspect"
    /\ res.outcome = "error_crc"
    /\ DiffPositions(Cassette, sealed) \subseteq (Len(fs[PImg]) + 1)..(Len(sealed) - 4)

\* C6: when the marker occurs more than once, find_iend returns the offset
\* just after the occurrence with the lowest start offset, wherever the
\* occurrences lie with respect to the read buffers.
C6_FirstOccurrenceWins ==
    (ScannerRan /\ Cardinality(MarkerEnds(Cassette)) >= 2)
        => res.toc_pos = FirstMarkerEnd(Cassette)

\* C7: find_iend returns None exactly when the marker occurs nowhere in the
\* file, and then the reader reports the missing marker and reads neither the
\* TOC nor a track.
C7_NoneIffMarkerAbsent ==
    ScannerRan
        => /\ (res.toc_pos = None) <=> (MarkerEnds(Cassette) = {})
           /\ res.toc_pos = None
                => /\ res.outcome = "error_no_iend"
                   /\ ~res.toc_read
                   /\ res.entries = <<>>
                   /\ res.data = <<>>

\* The track count the cassette declares where the reader found the TOC.
DeclaredCount == FromLe(Bytes(Cassette, res.toc_pos, 4))

\* extract got as far as reading a track count of at least 1.
ExtractSawCount ==
    /\ res.op = "extract"
    /\ res.toc_pos # None
    /\ CanRead(Cassette, res.toc_pos, 4)
    /\ DeclaredCount >= 1

C8_WitnessInRange ==
    /\ ExtractSawCount
    /\ DeclaredCount = 2
    /\ res.track_number = 2
    /\ res.outcome = "ok"
    /\ fs[PExt] = fs[args.audio_paths[2]]

\* A payload failed to open or to validate in record's first loop.
ValidationFailure(k) ==
    /\ k \in 1..Len(log)
    /\ log[k][1] = "Error"
    /\ log[k][2] \in {"open", "validate"}
    /\ log[k][3] # args.image_path

ValidationFailed == \E k \in 1..Len(log) : ValidationFailure(k)

Validated == SelectSeq(log, LAMBDA e : e[1] = "Validated")

\* C9: when a payload fails to open or to validate, record stops at the first
\* such payload: nothing is validated after it, and the output path is
\* neither created nor truncated nor written (the output changes only once
\* every payload has been validated).
C9_AbortBeforeOutput ==
    /\ [](ValidationFailed
            => /\ pc \in {"returned", "done"}
               /\ ValidationFailure(Len(log))
               /\ Len(Validated) < Len(args.audio_paths)
               /\ log[Len(log)][3] = args.audio_paths[Len(Validated) + 1]
               /\ \A i \in 1..Len(Validated) : Validated[i][2] = args.audio_paths[i])
    /\ [][fs'[POut] # fs[POut]
            => /\ ~ValidationFailed
               /\ pc \notin {"ready", "validate"}
               /\ Len(audio_files) = Len(args.audio_paths)]_vars

C9_Witness ==
    /\ ValidationFailed
    /\ Len(args.audio_paths) = 2
    /\ Len(Validated) = 1
    /\ log[Len(log)][2] = "validate"
    /\ fs[POut] = <<9>>
    /\ pc = "returned"

\* The TOC record wrote is cut short in the cassette: the file ends inside it.
TocCutShort ==
    /\ sealed # NoFile
    /\ Len(Cassette) < Len(sealed)
    /\ res.toc_pos = Len(fs[PImg])
    /\ Len(Cassette) < Len(fs[PImg]) + Len(BuildToc(audio_files))

\* C10: TOC decoding never truncates the entry list silently: when the file
\* ends inside the TOC the command fails and no track list is returned, and a
\* track list a reader returns has as many entries as the TOC declares.
C10_NoSilentTruncation ==
    ScannerRan
        => /\ TocCutShort => (res.outcome # "ok" /\ res.entries = <<>>)
           /\ (res.toc_pos # None /\ res.entries # <<>>)
                => (CanRead(Cassette, res.toc_pos, 4) /\ Len(res.entries) = DeclaredCount)
           /\ (res.outcome = "ok" /\ res.op # "extract")
                => (CanRead(Cassette, res.toc_pos, 4) /\ Len(res.entries) = DeclaredCount)

C10_Witness ==
    /\ TocCutShort
    /\ Len(Cassette) > Len(fs[PImg]) + 4
    /\ res.op \in {"tui", "gui"}
    /\ res.outcome = "error_read"

\* C11: no reader panics on a malformed but readable file: whatever the file
\* holds (the file ending right after the marker, a TOC cut short, a size
\* larger than what remains), inspect, extract and load_cassette_toc end in a
\* reported error and never in a panic.
C11_NoReaderPanics ==
    (ReaderRan /\ Cassette # NoFile
     /\ res.op \in {"inspect", "extract", "load_cassette_toc"})
        => res.outcome # "panic"

\* The file fails the integrity check: it has no room for a trailer, or its
\* trailer is not the CRC32 of the bytes before it.
FailsChecksum(f) == Len(f) < 4 \/ CrcMismatch(VerifyCrc(f))

\* C12: playback of a cassette whose CRC32 trailer does not match its
\* contents is blocked: play_random and the TUI/GUI players never come out
\* with a track list or a track's bytes from a file that fails the checksum.
C12_PlaybackBlockedOnMismatch ==
    (sealed # NoFile /\ res.op \in {"load_cassette_toc", "tui", "gui"}
     /\ FailsChecksum(Cassette))
        => (res.outcome = "ok" => (res.entries = <<>> /\ res.data = <<>>))

\* C13: inspect on a file shorter than 4 bytes (the empty file included)
\* reports the file-too-small error and computes no checksum, scans for no
\* marker and reads no TOC; on a file of 4 bytes or more it never reports
\* file-too-small.
C13_FileTooSmall ==
    (res.op = "inspect" /\ Cassette # NoFile)
        => /\ Len(Cassette) < 4
                => /\ res.outcome = "error_too_small"
                   /\ res.hashed = None
                   /\ res.crc = <<>>
                   /\ res.stored_crc = <<>>
                   /\ res.toc_pos = None
                   /\ ~res.toc_read
                   /\ res.entries = <<>>
           /\ Len(Cassette) >= 4 => res.outcome # "error_too_small"

C13_Witness ==
    /\ res.op = "inspect"
    /\ Cassette = <<>>
    /\ res.outcome = "error_too_small"

C13_WitnessFourBytes ==
    /\ res.op = "inspect"
    /\ Len(Cassette) = 4
    /\ res.outcome = "error_crc"
    /\ res.hashed = 0

\* The file position right after a TOC of k entries that starts at pos
\* (its count already read).
RECURSIVE TocEnd(_, _, _)
TocEnd(f, pos, k) ==
    IF k = 0 THEN pos
    ELSE TocEnd(f, pos + 4 + FromLe(Bytes(f, pos, 4)) + 8, k - 1)

\* c is the sum of a and b as natural numbers (a negative number stands for
\* the natural number 2^64 above it).
High(x) == IF x < 0 THEN 1 ELSE 0

SumIs(a, b, c) == a + b = c /\ High(a) + High(b) = High(c)

\* The offset of track i is payload_region_start plus the sizes in front.
RECURSIVE OffsetIs(_, _, _, _)
OffsetIs(entries, start, i, offset) ==
    IF i = 1 THEN offset = start
    ELSE /\ SumIs(start, entries[1][2], start + entries[1][2])
         /\ OffsetIs(Tail(entries), start + entries[1][2], i - 1, offset)

\* C14: offset accumulation: in every track list a reader resolves,
\* offsets[0] is the position right after the last TOC byte and offsets[i] =
\* offsets[i-1] + size[i-1]; extract, load_cassette_toc and the TUI and GUI
\* load_tracks all give track i that same offset.
C14_OffsetAccumulation ==
    (ScannerRan /\ res.outcome = "ok" /\ res.entries # <<>>)
        => LET start == TocEnd(Cassette, res.toc_pos + 4, res.count)
           IN  IF res.op = "extract"
               THEN OffsetIs(res.entries, start, res.track_number, res.offsets[1])
               ELSE /\ Len(res.offsets) = Len(res.entries)
                    /\ \A i \in 1..Len(res.entries) :
                         OffsetIs(res.entries, start, i, res.offsets[i])

\* C17: the core operations terminate on finite input files: a transfer
\* stops after reading at most the length its source had when the copy
\* began, whatever the image, payload and output paths are.
C17_TransferBoundedBySource ==
    src_len # None => rpos <= src_len

IsPrefix(a, b) == Len(a) <= Len(b) /\ SubSeq(b, 1, Len(a)) = a

\* The w little-endian bytes of a number below 2^24.
Le(n, w) == [j \in 1..w |-> IF j <= 3 THEN (n \div (256 ^ (j - 1))) % 256 ELSE 0]

\* The TOC layout: the count on 4 bytes, then per entry the name length on 4
\* bytes, the name, the size on 8 bytes.
RECURSIVE EntryLayout(_)
EntryLayout(entries) ==
    IF entries = <<>> THEN <<>>
    ELSE Le(Len(entries[1][1]), 4) \o entries[1][1] \o Le(entries[1][2], 8)
         \o EntryLayout(Tail(entries))

TocLayout(entries) == Le(Len(entries), 4) \o EntryLayout(entries)

\* record holds the output file open.
WriterAlive == pc \in {"copy_image", "write_toc", "copy_audio", "write_crc"}

\* record got as far as creating the output file.
OutputCreated ==
    \/ WriterAlive
    \/ pc = "panicked"
    \/ \E k \in 1..Len(log) :
         \/ log[k][1] \in {"Copied", "TOC written", "Success"}
         \/ log[k][1] = "Error" /\ log[k][2] = "copy"

\* The bytes handed to the writer so far, those it still holds included.
Written == IF WriterAlive THEN OutDisk \o wbuf ELSE OutDisk

\* Everything in front of the trailer, in the order of the claim.
Regions == fs[PImg] \o TocLayout(ExpectedEntries) \o Payloads(args.audio_paths)

\* C15: record writes the regions strictly in the order image, TOC, payload
\* 1 .. payload N (the order given, which is the order of the TOC entries),
\* then the 4-byte trailer: what has been written is at every moment a
\* leading part of that sequence, the trailer comes only once all of it is
\* written, and the output only ever grows by bytes appended at its end.
C15_RegionsInOrder ==
    /\ [](OutputCreated
            => /\ Len(Written) <= Len(Regions) + 4
               /\ IsPrefix(SubSeq(Written, 1, Min(Len(Written), Len(Regions))), Regions)
               /\ pc = "copy_image" => Len(Written) <= Len(fs[PImg])
               /\ pc = "write_toc" => Written = fs[PImg]
               /\ pc = "copy_audio"
                    => Len(Written) >= Len(fs[PImg]) + Len(TocLayout(ExpectedEntries))
               /\ pc = "write_crc" => Written = Regions
               /\ Len(Written) > Len(Regions) => ~WriterAlive)
    /\ [][OutputCreated => IsPrefix(fs[POut], fs'[POut])]_vars

C15_Witness ==
    /\ pc = "copy_audio"
    /\ Len(args.audio_paths) = 2
    /\ idx = 2
    /\ Written = fs[PImg] \o TocLayout(ExpectedEntries) \o fs[args.audio_paths[1]]
    /\ Len(OutDisk) > Len(fs[PImg])

\* The copy of the image or of a payload failed with an I/O error.
CopyFailure(k) ==
    /\ k \in 1..Len(log)
    /\ log[k][1] = "Error"
    /\ log[k][2] = "copy"

CopyFailed == \E k \in 1..Len(log) : CopyFailure(k)

Copied == SelectSeq(log, LAMBDA e : e[1] = "Copied")

\* The regions record copies with transfer, in order.
CopyOrder == <<args.image_path>> \o args.audio_paths

\* C16: when the copy of the image or of a payload fails with an I/O error,
\* record skips everything that remains: the failure is the last thing
\* logged, only the regions in front of the failing one were copied, the
\* output holds no trailer, success is not logged, and from then on record
\* neither writes to the output nor logs anything.
C16_CopyFailureAborts ==
    /\ [](CopyFailed
            => /\ pc \in {"returned", "done"}
               /\ CopyFailure(Len(log))
               /\ \A k \in 1..Len(log) : log[k][1] # "Success"
               /\ Len(Copied) < Len(CopyOrder)
               /\ \A i \in 1..Len(Copied) : Copied[i][2] = CopyOrder[i]
               /\ log[Len(log)][3] = CopyOrder[Len(Copied) + 1]
               /\ IsPrefix(fs[POut], Regions))
    /\ [][CopyFailed => (fs'[POut] = fs[POut] /\ log' = log)]_vars

C16_Witness ==
    /\ CopyFailed
    /\ Len(args.audio_paths) = 2
    /\ Len(Copied) = 2
    /\ pc = "returned"
    /\ Len(fs[POut]) > Len(fs[PImg])

\* 4 + the sum over the entries of (4 + name_len + 8)
RECURSIVE EntriesLength(_)
EntriesLength(entries) ==
    IF entries = <<>> THEN 0
    ELSE 4 + Len(entries[1][1]) + 8 + EntriesLength(Tail(entries))

TocLength(entries) == 4 + EntriesLength(entries)

\* "a.flac" of 500 bytes and "b.mp3" of 300 bytes behind an image of 100 bytes
ExampleEntries ==
    <<<<<<97, 46, 102, 108, 97, 99>>, 500>>, <<<<98, 46, 109, 112, 51>>, 300>>>>

ExampleHolds ==
    LET toc == BuildToc(ExampleEntries)
        p == ParseEntries(Pad(100) \o toc, 100 + 4, 2, <<>>)
    IN  /\ toc = TocLayout(ExampleEntries)
        /\ Len(toc) = 39
        /\ p.ok
        /\ p.entries = ExampleEntries
        /\ p.pos = 139
        /\ Offsets(p.entries, p.pos) = <<139, 639>>
        /\ p.pos + SumSizes(p.entries, 2) + 4 = 943

\* C18: the TOC record writes is the 4-byte little-endian track count, then
\* per entry the 4-byte little-endian name length, the name bytes and the
\* 8-byte little-endian size; it is 4 + sum of (4 + name_len + 8) bytes long,
\* and a reader that starts at the end of the image decodes exactly those
\* bytes: the entries come back as written and the first payload is at
\* image_length + TOC length.
C18_TocLayout ==
    /\ ExampleHolds
    /\ FreshCassette
         => LET at == Len(fs[PImg])
                toc == TocLayout(ExpectedEntries)
                first == at + TocLength(ExpectedEntries)
            IN  /\ Len(toc) = TocLength(ExpectedEntries)
                /\ CanRead(Cassette, at, Len(toc))
                /\ Bytes(Cassette, at, Len(toc)) = toc
                /\ Len(Cassette)
                     = first + SumSizes(ExpectedEntries, Len(ExpectedEntries)) + 4
                /\ (ReaderRan /\ res.toc_pos = at /\ res.toc_read)
                     => /\ res.count = Len(ExpectedEntries)
                        /\ res.outcome \in {"ok", "error_create", "error_index"}
                        /\ res.outcome # "error_index"
                             => res.entries = ExpectedEntries
                        /\ (res.op # "extract" /\ res.outcome = "ok")
                             => res.offsets[1] = first
                        /\ (res.op = "extract" /\ res.outcome = "ok")
                             => res.offsets[1]
                                  = first + SumSizes(ExpectedEntries, res.track_number - 1)

C18_Witness ==
    /\ FreshCassette
    /\ res.op = "tui"
    /\ Len(res.entries) = 2
    /\ res.entries[1][1] = PB
    /\ res.offsets[1] = Len(fs[PImg]) + TocLength(ExpectedEntries)

\* C19: hash_only(reader, hasher, limit) consumes exactly min(limit, bytes
\* remaining) bytes and feeds exactly those, in order, to the hasher; in
\* inspect it hashes the first file_len - 4 bytes and leaves the reader right
\* behind them, so the read_exact that follows returns the last 4 bytes of
\* the file.
C19_HashOnlyExact ==
    (res.op = "inspect" /\ Cassette # NoFile /\ Len(Cassette) >= 4)
        => LET f == Cassette
               data_len == Len(f) - 4
           IN  /\ res.hashed = data_len
               /\ res.crc = HasherFinalizeLe(HasherUpdate(HasherNew, SubSeq(f, 1, data_len)))
               /\ res.stored_crc = SubSeq(f, data_len + 1, Len(f))
               /\ res.outcome # "panic" \/ res.toc_read
               /\ \A limit \in {0, Len(f) + 1, Len(f) + BUFFER_SIZE} :
                    LET h == hash_only(f, HasherNew, 0, limit)
                        m == Min(limit, Len(f))
                    IN  /\ h.total = m
                        /\ h.hasher = HasherUpdate(HasherNew, SubSeq(f, 1, m))

C19_Witness ==
    /\ res.op = "inspect"
    /\ Cassette # NoFile
    /\ Len(Cassette) > BUFFER_SIZE + 4
    /\ (Len(Cassette) - 4) % BUFFER_SIZE # 0
    /\ res.hashed = Len(Cassette) - 4
    /\ res.stored_crc = SubSeq(Cassette, Len(Cassette) - 3, Len(Cassette))
    /\ res.outcome = "error_crc"

\* record is inside a call of transfer.
InTransfer == pc = "copy_image" \/ (pc = "copy_audio" /\ idx <= Len(audio_files))

\* The source of that call, and what the writer had been handed before it.
TransferSource ==
    IF pc = "copy_image" THEN fs[args.image_path] ELSE fs[audio_files[idx][1]]

TransferBefore ==
    IF pc = "copy_image" THEN <<>>
    ELSE fs[PImg] \o TocLayout(ExpectedEntries)
         \o Payloads(SubSeq(args.audio_paths, 1, idx - 1))

\* C20: transfer copies the whole source: after `total` bytes the sink has
\* received exactly the first `total` bytes of the source, in order, and the
\* hasher has been updated with exactly the bytes the sink received; it
\* returns only when total is the source's length, and that last turn writes
\* nothing and leaves the hasher alone (so an empty source writes nothing,
\* leaves the hasher unchanged and returns 0).
C20_TransferCopiesAll ==
    /\ [](InTransfer
            => /\ rpos <= Len(TransferSource)
               /\ Written = TransferBefore \o SubSeq(TransferSource, 1, rpos)
               /\ hasher = HasherUpdate(HasherNew, Written))
    /\ [][(InTransfer /\ Len(log') > Len(log) /\ log'[Len(log')][1] = "Copied")
            => /\ rpos = Len(TransferSource)
               /\ UNCHANGED <<fs, wbuf, hasher>>]_vars

C20_Witness ==
    /\ pc = "copy_audio"
    /\ idx = 2
    /\ Len(audio_files) = 2
    /\ rpos = Len(TransferSource)
    /\ Len(fs[PImg]) > BUFFER_SIZE
    /\ Written = TransferBefore \o TransferSource

C20_WitnessEmptySource ==
    /\ pc = "write_toc"
    /\ fs[PImg] = <<>>
    /\ Written = <<>>
    /\ hasher = HasherNew

\* C21: inspect verifies the checksum, then searches the marker, then decodes
\* the TOC, then lists the tracks, and stops at the first step that fails: a
\* stored trailer that differs from the computed CRC32 is reported as such,
\* whatever else the file holds, and then no marker is searched, no TOC read
\* and no track listed.
C21_InspectStopsAtFirstFailure ==
    (res.op = "inspect" /\ Cassette # NoFile /\ Len(Cassette) >= 4)
        => /\ res.crc # res.stored_crc
                => /\ res.outcome = "error_crc"
                   /\ res.toc_pos = None
                   /\ ~res.toc_read
                   /\ res.entries = <<>>
                   /\ res.offsets = <<>>
           /\ (res.crc = res.stored_crc /\ find_iend(Cassette) = None)
                => /\ res.outcome = "error_no_iend"
                   /\ ~res.toc_read
                   /\ res.entries = <<>>
           /\ res.toc_read
                => /\ res.crc = res.stored_crc
                   /\ res.toc_pos # None
                   /\ res.toc_pos = find_iend(Cassette)
           /\ res.entries # <<>> => res.toc_read
           /\ res.outcome = "ok"
                => /\ res.toc_read
                   /\ Len(res.entries) = res.count
                   /\ Len(res.offsets) = res.count

\* The checksum fails on a file whose marker and TOC are there to be read.
C21_Witness ==
    /\ res.op = "inspect"
    /\ res.outcome = "error_crc"
    /\ find_iend(Cassette) = Len(fs[PImg])
    /\ Len(Cassette) >= Len(fs[PImg]) + TocLength(ExpectedEntries)
    /\ res.entries = <<>>

\* The files record was given as inputs: the image and every payload.
InputPaths == {args.image_path} \cup {args.audio_paths[i] : i \in 1..Len(args.audio_paths)}

\* C28: record never modifies its input files: whatever the image path, the
\* payload paths and the output path are, once record has returned or
\* panicked the image file and every payload file hold what they held before
\* the call.
C28_InputsUnmodified ==
    pc \in {"returned", "panicked"}
        => \A p \in InputPaths :
              IF p = PImg THEN fs[p] \in AliasImages ELSE fs[p] = AliasPayloads[p]

\* record has logged its success message.
SuccessLogged ==
    /\ pc \in {"returned", "done"}
    /\ log # <<>>
    /\ log[Len(log)][1] = "Success"

\* C29: record logs 'Injection complete' only when every byte of the image,
\* the TOC, the payloads and the 4-byte trailer has reached the output file:
\* a failure to write the bytes the BufWriter still holds is never followed
\* by a reported success.
C29_SuccessMeansWritten ==
    SuccessLogged => fs[args.output_path] = Regions \o log[Len(log)][3]

\* The thread t executes progress.store(elapsed) in this step.
Stores(t) ==
    /\ t \in threads
    /\ t.at = "store"
    /\ threads' = (threads \ {t}) \cup {[t EXCEPT !.at = "is_playing"]}
    /\ progress_secs' = t.elapsed

\* C22: once play_track has started a newer playback (playback_generation
\* incremented past the value a progress thread was spawned with), that
\* thread never stores into progress_secs again, however the UI thread and
\* the progress threads interleave.
C22_StaleThreadNeverStores ==
    [][\A t \in threads : t.gen # playback_generation => ~Stores(t)]_vars

\* C23: between two calls of the player's methods, whatever failed inside
\* them, player_state is Playing or Paused only if there is a sink: a failed
\* play_track never leaves the player Playing with no sink.
C23_PlayingOnlyWithSink ==
    (upc = "idle" /\ player_state \in {"Playing", "Paused"}) => sink = "Some"

\* C24: whenever a track is current, progress_secs does not exceed that
\* track's duration_secs, however the threads interleave.
C24_ProgressWithinDuration ==
    current_track # None => progress_secs <= tracks[current_track + 1]

\* The UI thread enters the method op in this step.
Enters(op) == call'.seq # call.seq /\ call'.op = op

\* C25: after any sequence of select_previous, select_next, play_track,
\* next_track, previous_track and clicks on the playlist, selected_track is
\* below tracks.len(), the selection lies inside the visible window
\* (playlist_scroll <= selected_track < playlist_scroll + min(tracks.len(),
\* 5)), the window ends inside the list, and every index get_playlist_click
\* hands to select_track lies inside the window too; select_next on the last
\* track wraps to 0 and select_previous on track 0 wraps to the last track.
C25_SelectionVisible ==
    /\ [](/\ selected_track < Len(tracks)
          /\ playlist_scroll <= selected_track
          /\ selected_track < playlist_scroll + Min(Len(tracks), MAX_PLAYLIST_VISIBLE)
          /\ playlist_scroll + Min(Len(tracks), MAX_PLAYLIST_VISIBLE) <= Len(tracks)
          /\ \A i \in ClickRows :
                get_playlist_click(i) # None
                    => /\ get_playlist_click(i) < Len(tracks)
                       /\ playlist_scroll <= select_track(get_playlist_click(i))
                       /\ select_track(get_playlist_click(i))
                             < playlist_scroll + Min(Len(tracks), MAX_PLAYLIST_VISIBLE))
    /\ [][/\ (Enters("select_next") /\ selected_track = Len(tracks) - 1)
                => selected_track' = 0
          /\ (Enters("select_next") /\ selected_track < Len(tracks) - 1)
                => selected_track' = selected_track + 1
          /\ (Enters("select_previous") /\ selected_track = 0)
                => selected_track' = Len(tracks) - 1
          /\ (Enters("select_previous") /\ selected_track > 0)
                => selected_track' = selected_track - 1]_vars

\* select_previous has wrapped from track 0 to the last track of a list
\* longer than the window, and the window has followed.
C25_Witness ==
    /\ call.op = "select_previous"
    /\ Len(tracks) > MAX_PLAYLIST_VISIBLE
    /\ selected_track = Len(tracks) - 1
    /\ playlist_scroll = Len(tracks) - MAX_PLAYLIST_VISIBLE

\* C26: when the current track has finished while the player is Playing,
\* check_track_finished starts the next track if the current one is not the
\* last (it becomes the current and the selected track and, unless loading,
\* the device or the decoder fails, plays), and otherwise stops the player:
\* Stopped, no current track, progress_secs 0. The automatic advance never
\* wraps; next_track on the last track plays track 0 and previous_track on
\* track 0 plays the last track.
C26_AutoAdvance ==
    /\ [][Enters("check_track_finished")
            => /\ TrackFinished
               /\ IF current_track < Len(tracks) - 1
                  THEN /\ current_track' = current_track + 1
                       /\ selected_track' = current_track + 1
                       /\ call'.outcome \in {"connected", "load_failed", "device_failed"}
                  ELSE /\ player_state' = "Stopped"
                       /\ current_track' = None
                       /\ progress_secs' = 0
                       /\ sink' = "None"]_vars
    /\ [][(upc = "decode" /\ call'.outcome = "playing")
            => /\ player_state' = "Playing"
               /\ sink' = "Some"
               /\ ~sink_empty'
               /\ current_track' = current_track]_vars
    /\ [][(Enters("next_track") /\ current_track = Len(tracks) - 1)
            => current_track' = 0]_vars
    /\ [][(Enters("previous_track") /\ current_track = 0)
            => current_track' = Len(tracks) - 1]_vars

\* Two tracks were played one after the other, the second one started by
\* check_track_finished, which then stopped the player at the end of it.
C26_Witness ==
    /\ call.op = "check_track_finished"
    /\ call.outcome = "stopped"
    /\ Len(tracks) = 2
    /\ playback_generation = 2
    /\ player_state = "Stopped"

\* The sinks alive: the one App holds and the one play_track has connected
\* and not yet installed or dropped.
LiveSinks == (IF sink = "Some" THEN 1 ELSE 0) + (IF upc = "decode" THEN 1 ELSE 0)

\* C27: at most one audio sink exists at any time: when play_track connects
\* a new sink the previous sink and stream are gone already; and after
\* stop() there is no sink and no stream, the player is Stopped, no track is
\* current and is_playing is false.
C27_OneSink ==
    /\ LiveSinks <= 1
    /\ upc = "decode" => (sink = "None" /\ stream = "None" /\ ~is_playing)
    /\ (sink = "Some") = (stream = "Some")
    /\ call.op = "stop"
          => /\ sink = "None"
             /\ stream = "None"
             /\ player_state = "Stopped"
             /\ current_track = None
             /\ ~is_playing

\* play_track has been called while a track was playing: the old sink is
\* gone and the new one is connected.
C27_Witness ==
    /\ upc = "decode"
    /\ player_state = "Playing"
    /\ playback_generation = 1
    /\ sink = "None"

====
